---------------------------- MODULE Spec2Model ----------------------------
(***************************************************************************)
(* NeoRetroSynth (src/main.py): the step sequencer, the loop recorder and  *)
(* player, the preset map and the MIDI exporter, as the state machine the  *)
(* frame callback `update` drives.                                         *)
(*                                                                         *)
(* One step of the model is one call of NeoRetroSynth.update with the set  *)
(* of keys for which pyxel.btnp is true in that frame.  The handlers are   *)
(* operators from an engine state (a record of the fields of `self`) to    *)
(* the next engine state, composed in the order update calls them.  A      *)
(* Python exception leaves the state as mutated so far and ends the run.   *)
(*                                                                         *)
(* Python lists are sequences; Python index i is TLA+ index i + 1.         *)
(* drum_patterns and synth_patterns are references into `heap`, so that a  *)
(* preset that stores the reference shares the list object.                *)
(***************************************************************************)
EXTENDS Integers, Sequences, FiniteSets, TLC

(***************************************************************************)
(* Bounds of the model.                                                    *)
(***************************************************************************)
\* Longest loop buffer explored: an update that would record past it is not taken.
MaxLoop == 2
\* Frames explored by the specifications that bound a session's length.
MaxFrames == 8
\* Largest value write_var_length is applied to on its own (three bytes from 16384 on).
MaxDelta == 16500
\* The frames of a session spent moving the cursor to the end of a track.
MaxEditFrames == 10
\* The cells a session of any length may append to a pattern list.
MaxGrow == 1
\* The frames of a session that records a loop entry, edits a cell and runs
\* the transport up to its first step boundary at 120 bpm.
MaxOrderFrames == 31

(***************************************************************************)
(* Program constants.                                                      *)
(***************************************************************************)
PatternCells == 32
DefaultLength == 8
MinBpm == 60
MaxBpm == 300
BpmStep == 5
DefaultBpm == 120
FramesPerMinute == 3600
LoopInterval == 6
DrumSoundBase == 60
TopSound == 59
Division == 480
StepTicks == 120
DrumNoteBase == 35
MidiNoteBase == 60
MicrosPerMinute == 60000000

waveforms == <<"T", "S", "P", "N">>
drum_sounds == <<"K", "S", "H", "O">>
synth_notes == <<"C", "D", "E", "F", "G", "A", "B", "C+">>
arp_pattern == <<0, 4, 7, 12>>

\* The key lists of handle_keyboard_input / handle_sequencer and of
\* handle_drum_input / handle_sequencer, in list order.
synth_keys == <<"Z", "S", "X", "D", "C", "V", "G", "B", "H", "N", "J", "M">>
drum_keys == <<"1", "2", "3", "4">>

\* The float 0.25, kept as the exact fraction numerator/denominator.
QuarterDuration == <<1, 4>>
\* int(duration * k) for a duration kept as a fraction: truncation of an exact product.
IntTimes(duration, k) == (duration[1] * k) \div duration[2]

DefaultDrumCell == <<0, 0, 100, QuarterDuration>>
DefaultSynthCell == <<0, 0, 0, 0, 100, QuarterDuration>>

\* The references self.drum_patterns and self.synth_patterns hold after __init__.
DrumListRef == "list#drum_patterns"
SynthListRef == "list#synth_patterns"

NoFault == "none"
NoneValue == <<>>
\* An optional argument that was given.
Given(value) == <<value>>

Min(a, b) == IF a < b THEN a ELSE b
Max(a, b) == IF a > b THEN a ELSE b

\* Python list[i] and list[i] = v for a 0-based index known to be in range.
At(list, i) == list[i + 1]
SetAt(list, i, v) == [list EXCEPT ![i + 1] = v]
InRange(list, i) == i >= 0 /\ i < Len(list)
Pop(list) == SubSeq(list, 1, Len(list) - 1)

RECURSIVE Lcm1To(_)
Gcd(a, b) == CHOOSE d \in 1..a : a % d = 0 /\ b % d = 0 /\
                 \A e \in 1..a : (a % e = 0 /\ b % e = 0) => e <= d
Lcm1To(n) == IF n <= 1 THEN 1 ELSE (Lcm1To(n - 1) * n) \div Gcd(Lcm1To(n - 1), n)
\* pyxel.frame_count is read only by the loop player, through
\* frame_count % 6 and frame_count // 6 % len(loop): it is kept modulo a
\* common period of both for every loop length a run can have (at most cap),
\* which loses nothing.  A run that records nothing never reads it.
FrameWrap(cap) == IF cap = 0 THEN 1 ELSE LoopInterval * Lcm1To(cap)

VARIABLES
    current_octave, loop_recording, loop, sound_length, playing,
    current_waveform, drum_patterns, synth_patterns, drum_lengths,
    synth_lengths, current_steps, sequencer_playing, edit_mode,
    edit_position, edit_target, bpm, frame_count, drum_volume,
    synth_volume, presets, arpeggiator_on,
    heap,               \* the list objects drum_patterns / synth_patterns refer to
    pyxel_frame_count,  \* pyxel.frame_count, modulo FrameWrap(loop_cap)
    loop_cap,           \* the longest loop buffer the run explores (fixed by Init)
    frames,             \* history: frames played of a session of bounded length
    played,             \* the pyxel.play calls of the last update, in order
    console,            \* the last line printed by save_preset / load_preset
    midi_file,          \* the bytes of sequence.mid (<<>>: not written yet)
    wav_file,           \* what export_to_wav last wrote to sequence.wav
    nan_cast,           \* what numpy's cast of NaN to int16 gives in this run
    fault,              \* the exception that ended the run, or NoFault
    pressed,            \* history: the keys of the last update
    run_ticks,          \* history: updates since the last step boundary with the
                        \*   transport running and bpm unchanged throughout, else -1
    step_gap,           \* history: on a step boundary that closes such a run, the
                        \*   updates from the boundary before it to this one, else 0
    lap,                \* history: step boundaries since current_steps was `lap_origin`
    lap_origin,         \* history: current_steps where the current lap started
    snapshot,           \* history: per preset name, the values saved by save_preset
    vlq_in, vlq_out     \* the argument and result of write_var_length on its own

engine == <<current_octave, loop_recording, loop, sound_length, playing,
          current_waveform, drum_patterns, synth_patterns, drum_lengths,
          synth_lengths, current_steps, sequencer_playing, edit_mode,
          edit_position, edit_target, bpm, frame_count, drum_volume,
          synth_volume, presets, arpeggiator_on, heap, pyxel_frame_count,
          played, console, midi_file, fault, pressed, run_ticks, lap,
          lap_origin, snapshot, loop_cap, frames, step_gap, wav_file,
          nan_cast>>

vars == <<engine, vlq_in, vlq_out>>

\* The fields of self and the objects they refer to.
self_fields == <<current_octave, loop_recording, loop, sound_length, playing,
                 current_waveform, drum_patterns, synth_patterns, drum_lengths,
                 synth_lengths, current_steps, sequencer_playing, edit_mode,
                 edit_position, edit_target, bpm, frame_count, drum_volume,
                 synth_volume, presets, arpeggiator_on, heap>>

\* The engine state the handlers work on: the fields of self, the objects
\* they refer to and what the run has sent to its collaborators.
Self == [current_octave |-> current_octave, loop_recording |-> loop_recording,
         loop |-> loop, sound_length |-> sound_length, playing |-> playing,
         current_waveform |-> current_waveform, drum_patterns |-> drum_patterns,
         synth_patterns |-> synth_patterns, drum_lengths |-> drum_lengths,
         synth_lengths |-> synth_lengths, current_steps |-> current_steps,
         sequencer_playing |-> sequencer_playing, edit_mode |-> edit_mode,
         edit_position |-> edit_position, edit_target |-> edit_target,
         bpm |-> bpm, frame_count |-> frame_count, drum_volume |-> drum_volume,
         synth_volume |-> synth_volume, presets |-> presets,
         arpeggiator_on |-> arpeggiator_on, heap |-> heap,
         pyxel_frame_count |-> pyxel_frame_count, played |-> played,
         console |-> console, midi_file |-> midi_file, fault |-> fault,
         wav_file |-> wav_file, nan_cast |-> nan_cast]

\* A cast of NaN to an integer type is undefined: numpy documents no result
\* for it, and the result is whatever the conversion instruction of the
\* build leaves in the low 16 bits.
NanCasts == {"all 0", "all -32768"}

\* sequence.wav before any export.
NoWav == [contributions |-> <<>>, divisor |-> "none", samples |-> "unwritten"]

\* The state __init__ builds.
InitSelf ==
    [current_octave |-> 2, loop_recording |-> FALSE, loop |-> <<>>,
     sound_length |-> 10, playing |-> FALSE, current_waveform |-> 0,
     drum_patterns |-> DrumListRef, synth_patterns |-> SynthListRef,
     drum_lengths |-> <<DefaultLength, DefaultLength>>,
     synth_lengths |-> <<DefaultLength, DefaultLength>>,
     current_steps |-> <<0, 0, 0, 0>>, sequencer_playing |-> FALSE,
     edit_mode |-> FALSE, edit_position |-> 0, edit_target |-> 0,
     bpm |-> DefaultBpm, frame_count |-> 0, drum_volume |-> 7,
     synth_volume |-> 7, presets |-> [n \in {} |-> 0],
     arpeggiator_on |-> FALSE,
     heap |-> [r \in {DrumListRef, SynthListRef} |->
                 IF r = DrumListRef
                 THEN [t \in 1..2 |-> [c \in 1..PatternCells |-> DefaultDrumCell]]
                 ELSE [t \in 1..2 |-> [c \in 1..PatternCells |-> DefaultSynthCell]]],
     pyxel_frame_count |-> 0, played |-> <<>>, console |-> "",
     midi_file |-> <<>>, fault |-> NoFault, wav_file |-> NoWav,
     nan_cast |-> "all 0"]


(***************************************************************************)
(* The Sound Device and the interpreter.                                   *)
(***************************************************************************)
\* pyxel.play(channel, sound): recorded with the code path that made the call
\* and, for play_note, the arguments of the pyxel.sounds[sound].set before it.
pyxel_play(s, by, channel, sound, set) ==
    [s EXCEPT !.played = Append(@, [by |-> by, channel |-> channel,
                                    sound |-> sound, set |-> set])]

raise(s, exception) == [s EXCEPT !.fault = exception]

btnp(keys, key) == key \in keys

DrumPatterns(s) == s.heap[s.drum_patterns]
SynthPatterns(s) == s.heap[s.synth_patterns]

(***************************************************************************)
(* apply_arpeggiator, play_note                                            *)
(***************************************************************************)
\* apply_arpeggiator walking arp_pattern from its last offset to its first.
apply_arpeggiator_descending(s, note) ==
    IF s.arpeggiator_on
    THEN [k \in 1..Len(arp_pattern) |-> note + arp_pattern[Len(arp_pattern) + 1 - k]]
    ELSE <<note>>

apply_arpeggiator(s, note) ==
    IF s.arpeggiator_on
    THEN [k \in 1..Len(arp_pattern) |-> note + arp_pattern[k]]
    ELSE <<note>>

\* Lines 133-134 without line 134: the slot is not held to the last one.
SoundIndexUnclamped(note, octave) == note + (octave - 1) * 12

\* Lines 133-134; octave is the octave after line 131.
SoundIndex(note, octave) == Min(note + (octave - 1) * 12, TopSound)

play_note(s, note, octave, waveform, velocity, duration, channel, by) ==
    IF channel \notin {0, 1} THEN raise(s, "AssertionError")
    ELSE
    LET listed == synth_notes[(note % 8) + 1]
        note_name == IF listed = "C+" THEN "C" ELSE listed
        oct == IF listed = "C+" THEN octave + 1 ELSE octave
        sound_index == SoundIndex(note, oct)
        chosen == IF waveform = NoneValue THEN s.current_waveform ELSE waveform[1]
        wf == Max(0, Min(chosen, Len(waveforms) - 1))
        volume == Min(velocity \div 14, 7)
    IN  pyxel_play(s, by, channel, sound_index,
                   <<note_name, oct, waveforms[wf + 1], volume, "N",
                     IntTimes(duration, 30)>>)

(***************************************************************************)
(* handle_keyboard_input                                                   *)
(***************************************************************************)
\* `if self.loop_recording: self.loop.append((0, note, octave, waveform))`
RecordKeyNote(s, note) ==
    IF s.fault = NoFault /\ s.loop_recording
    THEN [s EXCEPT !.loop = Append(@, <<0, note, s.current_octave,
                                        s.current_waveform>>)]
    ELSE s

RECURSIVE PlayKeyNotes(_, _, _)
\* Lines 117-120 (notes = the arpeggio) and 122-124 (notes = the one note),
\* from element k of notes on.
PlayKeyNotes(s, notes, k) ==
    IF k > Len(notes) \/ s.fault # NoFault THEN s
    ELSE PlayKeyNotes(
             RecordKeyNote(play_note(s, notes[k], s.current_octave, NoneValue,
                                     100, QuarterDuration, 0, "key"),
                           notes[k]),
             notes, k + 1)

RECURSIVE KeyboardFrom(_, _, _)
\* The loop `for i, key in enumerate(keys)` from Python index i on.
KeyboardFrom(s, keys, i) ==
    IF i >= Len(synth_keys) \/ s.fault # NoFault THEN s
    ELSE IF ~btnp(keys, At(synth_keys, i)) THEN KeyboardFrom(s, keys, i + 1)
    ELSE KeyboardFrom(
             PlayKeyNotes(s, IF s.arpeggiator_on
                             THEN apply_arpeggiator(s, i % 8) ELSE <<i % 8>>, 1),
             keys, i + 1)

handle_keyboard_input(s, keys) == KeyboardFrom(s, keys, 0)

(***************************************************************************)
(* handle_drum_input                                                       *)
(***************************************************************************)
\* `if self.loop_recording: self.loop.append((1, sound_index))`
RecordDrum(s, sound_index) ==
    IF s.loop_recording THEN [s EXCEPT !.loop = Append(@, <<1, sound_index>>)]
    ELSE s

RECURSIVE DrumInputFrom(_, _, _)
DrumInputFrom(s, keys, i) ==
    IF i >= Len(drum_keys) THEN s
    ELSE IF ~btnp(keys, At(drum_keys, i)) THEN DrumInputFrom(s, keys, i + 1)
    ELSE DrumInputFrom(
             RecordDrum(pyxel_play(s, "drum", 1, DrumSoundBase + i, NoneValue),
                        DrumSoundBase + i),
             keys, i + 1)

handle_drum_input(s, keys) ==
    IF s.fault # NoFault THEN s ELSE DrumInputFrom(s, keys, 0)

(***************************************************************************)
(* handle_loop_controls                                                    *)
(***************************************************************************)
\* ToggleRecording starting playback whenever recording stops.
ToggleRecordingAlwaysPlays(s, keys) ==
    IF ~btnp(keys, "R") THEN s
    ELSE IF s.loop_recording
    THEN [s EXCEPT !.loop_recording = FALSE, !.playing = TRUE]
    ELSE [s EXCEPT !.loop_recording = TRUE]

\* Lines 156-159.
ToggleRecording(s, keys) ==
    IF ~btnp(keys, "R") THEN s
    ELSE IF s.loop_recording /\ s.loop # <<>>
    THEN [s EXCEPT !.loop_recording = FALSE, !.playing = TRUE]
    ELSE [s EXCEPT !.loop_recording = ~s.loop_recording]

\* Lines 161-162.
TogglePlaying(s, keys) ==
    IF btnp(keys, "SPACE") THEN [s EXCEPT !.playing = ~s.playing] ELSE s

\* Lines 164-166.
ClearLoop(s, keys) ==
    IF btnp(keys, "C") THEN [s EXCEPT !.loop = <<>>, !.playing = FALSE] ELSE s

\* The index line 170 reads.
LoopIndex(frame, length) == (frame \div LoopInterval) % length

\* `channel, sound = ...; pyxel.play(channel, sound)`: the unpacking needs
\* an entry of exactly two values.
ReplayEntry(s, entry) ==
    IF Len(entry) # 2 THEN raise(s, "ValueError")
    ELSE pyxel_play(s, "loop", entry[1], entry[2], NoneValue)

\* Lines 168-171.
ReplayLoop(s) ==
    IF ~(s.playing /\ s.loop # <<>>) THEN s
    ELSE IF s.pyxel_frame_count % LoopInterval # 0 THEN s
    ELSE ReplayEntry(s, At(s.loop, LoopIndex(s.pyxel_frame_count, Len(s.loop))))

handle_loop_controls(s, keys) ==
    IF s.fault # NoFault THEN s
    ELSE ReplayLoop(ClearLoop(TogglePlaying(ToggleRecording(s, keys), keys), keys))

(***************************************************************************)
(* handle_sound_controls and the methods it calls.  setup_sounds rewrites  *)
(* the Sound Device's sound bank from sound_length, current_waveform and   *)
(* drum_volume and changes no field of self.                               *)
(***************************************************************************)
setup_sounds(s) == s

increase_bpm(s) == [s EXCEPT !.bpm = Min(s.bpm + BpmStep, MaxBpm)]
decrease_bpm(s) == [s EXCEPT !.bpm = Max(s.bpm - BpmStep, MinBpm)]
increase_drum_volume(s) == setup_sounds([s EXCEPT !.drum_volume = Min(@ + 1, 7)])
decrease_drum_volume(s) == setup_sounds([s EXCEPT !.drum_volume = Max(@ - 1, 0)])
increase_synth_volume(s) == [s EXCEPT !.synth_volume = Min(@ + 1, 7)]
decrease_synth_volume(s) == [s EXCEPT !.synth_volume = Max(@ - 1, 0)]

\* Lines 174-177.
OctaveUpKey(s, keys) ==
    IF btnp(keys, "UP") /\ s.current_octave < 4
    THEN [s EXCEPT !.current_octave = @ + 1] ELSE s
OctaveDownKey(s, keys) ==
    IF btnp(keys, "DOWN") /\ s.current_octave > 1
    THEN [s EXCEPT !.current_octave = @ - 1] ELSE s

\* Lines 179-184.
ShorterSoundKey(s, keys) ==
    IF btnp(keys, "LEFT") /\ s.sound_length > 1
    THEN setup_sounds([s EXCEPT !.sound_length = @ - 1]) ELSE s
LongerSoundKey(s, keys) ==
    IF btnp(keys, "RIGHT") /\ s.sound_length < 99
    THEN setup_sounds([s EXCEPT !.sound_length = @ + 1]) ELSE s

\* Lines 186-188.
WaveformKey(s, keys) ==
    IF btnp(keys, "W")
    THEN setup_sounds([s EXCEPT !.current_waveform = (@ + 1) % Len(waveforms)])
    ELSE s

\* Lines 190-193.
BpmUpKey(s, keys) == IF btnp(keys, "PERIOD") THEN increase_bpm(s) ELSE s
BpmDownKey(s, keys) == IF btnp(keys, "COMMA") THEN decrease_bpm(s) ELSE s

\* Lines 195-203.
DrumVolumeDownKey(s, keys) == IF btnp(keys, "6") THEN decrease_drum_volume(s) ELSE s
DrumVolumeUpKey(s, keys) == IF btnp(keys, "7") THEN increase_drum_volume(s) ELSE s
SynthVolumeDownKey(s, keys) == IF btnp(keys, "8") THEN decrease_synth_volume(s) ELSE s
SynthVolumeUpKey(s, keys) == IF btnp(keys, "9") THEN increase_synth_volume(s) ELSE s

handle_sound_controls(s, keys) ==
    IF s.fault # NoFault THEN s
    ELSE SynthVolumeUpKey(SynthVolumeDownKey(DrumVolumeUpKey(DrumVolumeDownKey(
         BpmDownKey(BpmUpKey(WaveformKey(LongerSoundKey(ShorterSoundKey(
         OctaveDownKey(OctaveUpKey(s, keys), keys), keys), keys), keys), keys),
         keys), keys), keys), keys), keys)

(***************************************************************************)
(* handle_sequencer: the step clock                                        *)
(***************************************************************************)
\* The list object a track's pattern is, by edit_target numbering
\* (0-1 drums, 2-3 synths), and the same list object given new contents.
PatternOf(s, target) ==
    IF target < 2 THEN At(DrumPatterns(s), target)
    ELSE At(SynthPatterns(s), target - 2)

LengthOf(s, target) ==
    IF target < 2 THEN At(s.drum_lengths, target)
    ELSE At(s.synth_lengths, target - 2)

WithPattern(s, target, pattern) ==
    IF target < 2
    THEN [s EXCEPT !.heap[s.drum_patterns] = SetAt(@, target, pattern)]
    ELSE [s EXCEPT !.heap[s.synth_patterns] = SetAt(@, target - 2, pattern)]

\* The cell a track's step event reads: pattern[current_steps[track]].
StepCell(s, track) == At(PatternOf(s, track), At(s.current_steps, track))

\* AdvanceStep wrapping one position late.
AdvanceStepPastEnd(step, length) == (step + 1) % (length + 1)

\* The next position of a track whose position is `step`.
AdvanceStep(step, length) == (step + 1) % length

\* `self.current_steps[t] = (self.current_steps[t] + 1) % length`
AdvanceTrack(s, track) ==
    IF s.fault # NoFault THEN s
    ELSE [s EXCEPT !.current_steps =
              SetAt(@, track, AdvanceStep(At(s.current_steps, track),
                                          LengthOf(s, track)))]

\* Lines 237-241 for a cell that exists.
FireDrumCell(s, cell) ==
    IF cell[1] = 0 THEN s
    ELSE RecordDrum(pyxel_play(s, "step", 1, DrumSoundBase + cell[2], NoneValue),
                    DrumSoundBase + cell[2])

\* `if self.loop_recording: self.loop.append((0, note, octave, waveform))`
RecordSynthStep(s, cell) ==
    IF s.fault = NoFault /\ s.loop_recording
    THEN [s EXCEPT !.loop = Append(@, <<0, cell[2], cell[3], cell[4]>>)]
    ELSE s

\* Lines 245-249 for a cell that exists; i is the synth track.
FireSynthCell(s, cell, i) ==
    IF cell[1] = 0 THEN s
    ELSE RecordSynthStep(
             play_note(s, cell[2], cell[3], Given(cell[4]), cell[5], cell[6], i,
                       "step"),
             cell)

\* One pass of a track loop of lines 236-250; tracks 0-1 are the drums.
StepTrack(s, track) ==
    IF ~InRange(PatternOf(s, track), At(s.current_steps, track))
    THEN raise(s, "IndexError")
    ELSE AdvanceTrack(IF track < 2 THEN FireDrumCell(s, StepCell(s, track))
                      ELSE FireSynthCell(s, StepCell(s, track), track - 2),
                      track)

RECURSIVE StepDrumTracksFrom(_, _)
\* StepTracksFrom without the second loop: the synth tracks are left out.
StepDrumTracksFrom(s, track) ==
    IF track >= 2 \/ s.fault # NoFault THEN s
    ELSE StepDrumTracksFrom(StepTrack(s, track), track + 1)

RECURSIVE StepTracksFrom(_, _)
\* The two loops of lines 236-250, from track (edit_target numbering) on.
StepTracksFrom(s, track) ==
    IF track >= 4 \/ s.fault # NoFault THEN s
    ELSE StepTracksFrom(StepTrack(s, track), track + 1)

\* StepDue one frame late: `>` for `>=`.
StepDueLate(count, frames_per_step) == count > frames_per_step

\* Whether the frame counter has reached the step interval.
StepDue(count, frames_per_step) == count >= frames_per_step

\* ToggleTransport without line 228: the frame counter is left as it is.
ToggleTransportKeepsCount(s, keys) ==
    IF btnp(keys, "TAB")
    THEN [s EXCEPT !.sequencer_playing = ~s.sequencer_playing]
    ELSE s

\* Lines 226-228.
ToggleTransport(s, keys) ==
    IF btnp(keys, "TAB")
    THEN [s EXCEPT !.sequencer_playing = ~s.sequencer_playing, !.frame_count = 0]
    ELSE s

\* Lines 234-250, frame_count already incremented.
StepIfDue(s) ==
    IF StepDue(s.frame_count, FramesPerMinute \div s.bpm)
    THEN StepTracksFrom([s EXCEPT !.frame_count = 0], 0)
    ELSE s

\* Lines 230-250.
ClockTick(s) ==
    IF s.sequencer_playing THEN StepIfDue([s EXCEPT !.frame_count = @ + 1]) ELSE s

StepClock(s, keys) == ClockTick(ToggleTransport(s, keys))

(***************************************************************************)
(* handle_sequencer: the pattern editor                                    *)
(***************************************************************************)
\* current_pattern[self.edit_position][field] = value, on the list object
\* of the edited track; field is the Python index into the cell.
SetCellField(s, field, value) ==
    IF s.fault # NoFault THEN s
    ELSE IF ~InRange(PatternOf(s, s.edit_target), s.edit_position)
    THEN raise(s, "IndexError")
    ELSE WithPattern(s, s.edit_target,
             SetAt(PatternOf(s, s.edit_target), s.edit_position,
                   SetAt(At(PatternOf(s, s.edit_target), s.edit_position),
                         field, value)))

\* Lines 265-268; current_length (line 263) is the track's length, which
\* nothing changes before line 294.
CursorLeftKey(s, keys) ==
    IF btnp(keys, "LEFT") /\ s.edit_position > 0
    THEN [s EXCEPT !.edit_position = @ - 1] ELSE s
CursorRightKey(s, keys) ==
    IF btnp(keys, "RIGHT")
    THEN [s EXCEPT !.edit_position = Min(@ + 1, LengthOf(s, s.edit_target))]
    ELSE s

\* Lines 270-271.
ToggleCell(s, keys) ==
    IF ~btnp(keys, "SPACE") THEN s
    ELSE IF ~InRange(PatternOf(s, s.edit_target), s.edit_position)
    THEN raise(s, "IndexError")
    ELSE SetCellField(s, 0, 1 - At(PatternOf(s, s.edit_target), s.edit_position)[1])

RECURSIVE EditDrumKeysFrom(_, _, _)
\* Lines 275-278.
EditDrumKeysFrom(s, keys, i) ==
    IF i >= Len(drum_keys) \/ s.fault # NoFault THEN s
    ELSE IF ~btnp(keys, At(drum_keys, i)) THEN EditDrumKeysFrom(s, keys, i + 1)
    ELSE EditDrumKeysFrom(SetCellField(SetCellField(s, 1, i), 0, 1), keys, i + 1)

RECURSIVE EditSynthKeysFrom(_, _, _)
\* Lines 285-290.
EditSynthKeysFrom(s, keys, i) ==
    IF i >= Len(synth_keys) \/ s.fault # NoFault THEN s
    ELSE IF ~btnp(keys, At(synth_keys, i)) THEN EditSynthKeysFrom(s, keys, i + 1)
    ELSE EditSynthKeysFrom(
             SetCellField(
                 SetCellField(
                     SetCellField(SetCellField(s, 1, i % 8), 2, s.current_octave),
                     3, s.current_waveform),
                 0, 1),
             keys, i + 1)

\* Lines 273-290.
EditKeys(s, keys) ==
    IF s.fault # NoFault THEN s
    ELSE IF s.edit_target < 2 THEN EditDrumKeysFrom(s, keys, 0)
    ELSE EditSynthKeysFrom(s, keys, 0)

\* Lines 293-295.  current_length is the local copy of the track's length
\* that line 263 read; the request changes the local and the list object.
\* The result is the pair <<engine state, current_length>>.
GrowPattern(s, current_length) ==
    IF current_length < PatternCells
    THEN <<WithPattern(s, s.edit_target,
                Append(PatternOf(s, s.edit_target),
                       IF s.edit_target < 2 THEN DefaultDrumCell
                       ELSE DefaultSynthCell)),
           current_length + 1>>
    ELSE <<s, current_length>>

\* Lines 297-299, as GrowPattern; list.pop() of an empty list raises.
ShrinkPattern(s, current_length) ==
    IF current_length > 1
    THEN IF PatternOf(s, s.edit_target) = <<>>
         THEN <<raise(s, "IndexError"), current_length - 1>>
         ELSE <<WithPattern(s, s.edit_target, Pop(PatternOf(s, s.edit_target))),
                current_length - 1>>
    ELSE <<s, current_length>>

\* Line 292 and line 296, on the pair <<engine state, current_length>>.
GrowKey(pair, keys) ==
    IF pair[1].fault = NoFault /\ btnp(keys, "EQUALS")
    THEN GrowPattern(pair[1], pair[2]) ELSE pair

ShrinkKey(pair, keys) ==
    IF pair[1].fault = NoFault /\ btnp(keys, "MINUS")
    THEN ShrinkPattern(pair[1], pair[2]) ELSE pair

\* Lines 292-299.
ResizeKeys(s, keys) ==
    ShrinkKey(GrowKey(<<s, LengthOf(s, s.edit_target)>>, keys), keys)[1]

\* Lines 301-302.
ExitKey(s, keys) ==
    IF s.fault = NoFault /\ btnp(keys, "BACKSPACE")
    THEN [s EXCEPT !.edit_mode = FALSE] ELSE s

\* Lines 261-302: the body of `if self.edit_mode:`.
EditPattern(s, keys) ==
    ExitKey(ResizeKeys(EditKeys(ToggleCell(
        CursorRightKey(CursorLeftKey(s, keys), keys), keys), keys), keys), keys)

\* Lines 253-256.
EditModeKey(s, keys) ==
    IF ~btnp(keys, "E") THEN s
    ELSE IF s.edit_mode THEN [s EXCEPT !.edit_mode = FALSE]
    ELSE [s EXCEPT !.edit_mode = TRUE, !.edit_position = 0]

\* Lines 258-259.
TargetKey(s, keys) ==
    IF btnp(keys, "T") THEN [s EXCEPT !.edit_target = (@ + 1) % 4] ELSE s

\* EditIfEditing without the test of line 261: the body runs in either mode.
EditAlways(s, keys) == EditPattern(s, keys)

\* Line 261.
EditIfEditing(s, keys) == IF s.edit_mode THEN EditPattern(s, keys) ELSE s

\* Lines 253-302.
EditController(s, keys) ==
    IF s.fault # NoFault THEN s
    ELSE EditIfEditing(TargetKey(EditModeKey(s, keys), keys), keys)

\* handle_sequencer with lines 253-302 moved above line 226: the pattern
\* editor runs before the step clock.
handle_sequencer_edit_first(s, keys) ==
    IF s.fault # NoFault THEN s ELSE StepClock(EditController(s, keys), keys)

\* Lines 225-302: the step clock, then the pattern editor.
handle_sequencer(s, keys) ==
    IF s.fault # NoFault THEN s ELSE EditController(StepClock(s, keys), keys)

(***************************************************************************)
(* export_to_midi                                                          *)
(***************************************************************************)
RECURSIVE VarLengthLoop(_, _)
\* `while value: result.insert(0, value & 0x7F | 0x80); value >>= 7`
VarLengthLoop(value, result) ==
    IF value = 0 THEN result
    ELSE VarLengthLoop(value \div 128, <<(value % 128) + 128>> \o result)

\* write_var_length without line 432: the last byte keeps its continuation bit.
write_var_length_unterminated(value) ==
    IF VarLengthLoop(value, <<>>) = <<>> THEN <<0>> ELSE VarLengthLoop(value, <<>>)

write_var_length(value) ==
    LET looped == VarLengthLoop(value, <<>>)
        result == IF looped = <<>> THEN <<0>> ELSE looped
    IN  [result EXCEPT ![Len(result)] = @ % 128]

note_to_midi(note, octave) == note + (octave - 1) * 12 + MidiNoteBase

\* struct.pack('>I', v) and struct.pack('>H', v)
PackI(v) == <<(v \div 16777216) % 256, (v \div 65536) % 256, (v \div 256) % 256, v % 256>>
PackH(v) == <<(v \div 256) % 256, v % 256>>

ChunkMThd == <<77, 84, 104, 100>>
ChunkMTrk == <<77, 84, 114, 107>>
EndOfTrack == <<0, 255, 47, 0>>

\* Lines 440-441.
MidiHeader == ChunkMThd \o PackI(6) \o PackH(1) \o PackH(2) \o PackH(Division)

\* Lines 446-447: the bytes that open the drum track.
TempoEvent(s) ==
    PackI(0) \o <<255, 81, 3>> \o SubSeq(PackI(MicrosPerMinute \div s.bpm), 1, 3)

\* DrumEvents with the note-off carrying the note-on's velocity.
DrumEventsLoudOff(step, cell) ==
    write_var_length(step * StepTicks) \o <<153, DrumNoteBase + cell[2], cell[3]>>
    \o write_var_length(IntTimes(cell[4], Division))
    \o <<137, DrumNoteBase + cell[2], cell[3]>>

\* Lines 451-454.
DrumEvents(step, cell) ==
    LET delta_time == write_var_length(step * StepTicks)
        note == DrumNoteBase + cell[2]
    IN  delta_time \o <<153>> \o <<note, cell[3]>>
        \o write_var_length(IntTimes(cell[4], Division)) \o <<137>> \o <<note, 0>>

\* Lines 466-469.
SynthEvents(step, cell) ==
    LET delta_time == write_var_length(step * StepTicks)
        midi_note == note_to_midi(cell[2], cell[3])
    IN  delta_time \o <<144>> \o <<midi_note, cell[5]>>
        \o write_var_length(IntTimes(cell[6], Division)) \o <<128>> \o <<midi_note, 0>>

\* pattern[:length]
Slice(pattern, length) == SubSeq(pattern, 1, Min(length, Len(pattern)))

RECURSIVE DrumTrackFrom(_, _, _)
\* The loop of lines 449-454 over the sliced pattern, from Python index step on.
DrumTrackFrom(cells, step, track_data) ==
    IF step >= Len(cells) THEN track_data
    ELSE DrumTrackFrom(cells, step + 1,
             IF At(cells, step)[1] # 0
             THEN track_data \o DrumEvents(step, At(cells, step))
             ELSE track_data)

RECURSIVE SynthTrackFrom(_, _, _)
\* The loop of lines 464-469.
SynthTrackFrom(cells, step, track_data) ==
    IF step >= Len(cells) THEN track_data
    ELSE SynthTrackFrom(cells, step + 1,
             IF At(cells, step)[1] # 0
             THEN track_data \o SynthEvents(step, At(cells, step))
             ELSE track_data)

\* TrackChunk measuring the track before its end-of-track event is appended.
TrackChunkShortLength(track_data) ==
    ChunkMTrk \o PackI(Len(track_data)) \o track_data \o EndOfTrack

\* Lines 456-458 and 471-473: a finished track as it is written to the file.
TrackChunk(track_data) ==
    LET body == track_data \o EndOfTrack
    IN  ChunkMTrk \o PackI(Len(body)) \o body

\* export_to_midi writing the second drum track where the first belongs.
export_to_midi_second_drums(s) ==
    IF s.fault # NoFault THEN s
    ELSE [s EXCEPT !.midi_file =
             MidiHeader
             \o TrackChunk(DrumTrackFrom(
                    Slice(At(DrumPatterns(s), 1), At(s.drum_lengths, 1)),
                    0, TempoEvent(s)))
             \o TrackChunk(SynthTrackFrom(
                    Slice(At(SynthPatterns(s), 0), At(s.synth_lengths, 0)),
                    0, <<>>))]

export_to_midi(s) ==
    IF s.fault # NoFault THEN s
    ELSE
    LET drum_track == DrumTrackFrom(
                          Slice(At(DrumPatterns(s), 0), At(s.drum_lengths, 0)),
                          0, TempoEvent(s))
        synth_track == SynthTrackFrom(
                          Slice(At(SynthPatterns(s), 0), At(s.synth_lengths, 0)),
                          0, <<>>)
    IN  [s EXCEPT !.midi_file =
             MidiHeader \o TrackChunk(drum_track) \o TrackChunk(synth_track)]

(***************************************************************************)
(* export_to_wav                                                           *)
(***************************************************************************)
\* Line 487: the term a drum cell adds to audio, by frequency and gain.
DrumContribution(cell) ==
    [wave |-> "sine", decay |-> 10, freq |-> 100 + cell[2] * 100,
     semitones |-> 0, velocity |-> cell[3]]

\* Lines 492-500: the term a synth cell adds, by its pitch in semitones from
\* A4, its wave shape and its gain.
SynthContribution(cell) ==
    [wave |-> IF waveforms[cell[4] + 1] = "S" THEN "square"
              ELSE IF waveforms[cell[4] + 1] = "T" THEN "triangle" ELSE "sine",
     decay |-> 5, freq |-> 440, semitones |-> cell[2] + (cell[3] - 4) * 12,
     velocity |-> cell[5]]

RECURSIVE DrumAudioFrom(_, _, _)
\* The loop of lines 484-487 over the sliced pattern, from index step on.
DrumAudioFrom(cells, step, audio) ==
    IF step >= Len(cells) THEN audio
    ELSE DrumAudioFrom(cells, step + 1,
             IF At(cells, step)[1] # 0
             THEN Append(audio, DrumContribution(At(cells, step)))
             ELSE audio)

RECURSIVE SynthAudioFrom(_, _, _)
\* The loop of lines 490-500.
SynthAudioFrom(cells, step, audio) ==
    IF step >= Len(cells) THEN audio
    ELSE SynthAudioFrom(cells, step + 1,
             IF At(cells, step)[1] # 0
             THEN Append(audio, SynthContribution(At(cells, step)))
             ELSE audio)

\* np.max(np.abs(audio)) is 0 exactly when no term with a gain was added:
\* every term is a decaying wave scaled by velocity / 100.
PeakIsZero(audio) == \A k \in 1..Len(audio) : audio[k].velocity = 0

\* Line 502: audio is divided by its peak whatever the peak is. Dividing the
\* float array by 0 warns and gives NaN in every sample; np.int16 then casts
\* the NaNs.
Normalise(s, audio) ==
    IF PeakIsZero(audio)
    THEN [contributions |-> audio, divisor |-> "zero", samples |-> s.nan_cast]
    ELSE [contributions |-> audio, divisor |-> "positive", samples |-> "scaled"]

export_to_wav(s) ==
    IF s.fault # NoFault THEN s
    ELSE [s EXCEPT !.wav_file =
             Normalise(s,
                 SynthAudioFrom(
                     Slice(At(SynthPatterns(s), 0), At(s.synth_lengths, 0)), 0,
                     DrumAudioFrom(
                         Slice(At(DrumPatterns(s), 0), At(s.drum_lengths, 0)),
                         0, <<>>)))]

(***************************************************************************)
(* save_preset, load_preset, toggle_arpeggiator                            *)
(***************************************************************************)
\* The dict built at lines 507-511: the waveform index by value, the two
\* pattern lists by reference.
PresetOf(s) ==
    [waveform |-> s.current_waveform, drum_patterns |-> s.drum_patterns,
     synth_patterns |-> s.synth_patterns]

save_preset(s, name) ==
    IF s.fault # NoFault THEN s
    ELSE [s EXCEPT !.presets = [n \in (DOMAIN s.presets) \cup {name} |->
                                   IF n = name THEN PresetOf(s) ELSE s.presets[n]],
                   !.console = "saved"]

\* PresetNotFound falling back to the waveform of a fresh engine.
PresetNotFoundResets(s, name) ==
    [s EXCEPT !.console = "not found", !.current_waveform = 0]

\* The else branch of load_preset, lines 522-523.
PresetNotFound(s, name) == [s EXCEPT !.console = "not found"]

load_preset(s, name) ==
    IF s.fault # NoFault THEN s
    ELSE IF name \in DOMAIN s.presets
    THEN LET preset == s.presets[name]
         IN  [setup_sounds([s EXCEPT !.current_waveform = preset.waveform,
                                     !.drum_patterns = preset.drum_patterns,
                                     !.synth_patterns = preset.synth_patterns])
                EXCEPT !.console = "loaded"]
    ELSE PresetNotFound(s, name)

toggle_arpeggiator(s) ==
    IF s.fault # NoFault THEN s ELSE [s EXCEPT !.arpeggiator_on = ~s.arpeggiator_on]

(***************************************************************************)
(* update                                                                  *)
(***************************************************************************)
\* Lines 95-104.
MidiKey(s, keys) == IF btnp(keys, "F1") THEN export_to_midi(s) ELSE s
WavKey(s, keys) == IF btnp(keys, "F2") THEN export_to_wav(s) ELSE s
SaveKey(s, keys) == IF btnp(keys, "F3") THEN save_preset(s, "default") ELSE s
LoadKey(s, keys) == IF btnp(keys, "F4") THEN load_preset(s, "default") ELSE s
ArpeggiatorKey(s, keys) == IF btnp(keys, "F5") THEN toggle_arpeggiator(s) ELSE s

\* UpdateBody with line 92 moved below line 93: the tempo keys are read
\* after the step clock has counted the frame.
UpdateBodyTempoLast(s, keys) ==
    ArpeggiatorKey(LoadKey(SaveKey(WavKey(MidiKey(
        handle_sound_controls(handle_sequencer(handle_loop_controls(
            handle_drum_input(handle_keyboard_input(s, keys), keys), keys),
            keys), keys),
        keys), keys), keys), keys), keys)

\* Lines 89-104, after the quit test.
UpdateBody(s, keys) ==
    ArpeggiatorKey(LoadKey(SaveKey(WavKey(MidiKey(
        handle_sequencer(handle_sound_controls(handle_loop_controls(
            handle_drum_input(handle_keyboard_input(s, keys), keys), keys),
            keys), keys),
        keys), keys), keys), keys), keys)

\* update; pyxel.quit() ends the process at once.
update(s, keys) ==
    IF btnp(keys, "Q") THEN raise([s EXCEPT !.played = <<>>], "quit")
    ELSE UpdateBody([s EXCEPT !.played = <<>>], keys)

(***************************************************************************)
(* The state machine                                                       *)
(***************************************************************************)
InitOn(cap, value, casts) ==
    /\ loop_cap = cap
    /\ nan_cast \in casts
    /\ wav_file = InitSelf.wav_file
    /\ frames = 0
    /\ current_octave = InitSelf.current_octave
    /\ loop_recording = InitSelf.loop_recording
    /\ loop = InitSelf.loop
    /\ sound_length = InitSelf.sound_length
    /\ playing = InitSelf.playing
    /\ current_waveform = InitSelf.current_waveform
    /\ drum_patterns = InitSelf.drum_patterns
    /\ synth_patterns = InitSelf.synth_patterns
    /\ drum_lengths = InitSelf.drum_lengths
    /\ synth_lengths = InitSelf.synth_lengths
    /\ current_steps = InitSelf.current_steps
    /\ sequencer_playing = InitSelf.sequencer_playing
    /\ edit_mode = InitSelf.edit_mode
    /\ edit_position = InitSelf.edit_position
    /\ edit_target = InitSelf.edit_target
    /\ bpm = InitSelf.bpm
    /\ frame_count = InitSelf.frame_count
    /\ drum_volume = InitSelf.drum_volume
    /\ synth_volume = InitSelf.synth_volume
    /\ presets = InitSelf.presets
    /\ arpeggiator_on = InitSelf.arpeggiator_on
    /\ heap = InitSelf.heap
    /\ pyxel_frame_count = InitSelf.pyxel_frame_count
    /\ played = InitSelf.played
    /\ console = InitSelf.console
    /\ midi_file = InitSelf.midi_file
    /\ fault = InitSelf.fault
    /\ pressed = {}
    /\ run_ticks = -1
    /\ step_gap = 0
    /\ lap = <<0, 0, 0, 0>>
    /\ lap_origin = InitSelf.current_steps
    /\ snapshot = [n \in {} |-> 0]
    /\ vlq_in = value
    /\ vlq_out = <<>>

\* A session that never exports to WAV: the cast of a NaN is never made.
InitWith(cap, value) == InitOn(cap, value, {InitSelf.nan_cast})

\* A session in which the loop recorder may be used, and one in which it is not.
Init == InitOn(MaxLoop, 0, NanCasts)
InitNoLoop == InitWith(0, 0)

\* The values a preset is meant to hold: what save_preset saw.
SavedValues(s) ==
    [waveform |-> s.current_waveform, drum_patterns |-> DrumPatterns(s),
     synth_patterns |-> SynthPatterns(s)]

\* One frame in which exactly the keys of `keys` are newly pressed.
Frame(keys) ==
    /\ fault = NoFault
    /\ \E t \in {update(Self, keys)} :
        /\ Len(t.loop) <= loop_cap
        /\ current_octave' = t.current_octave
        /\ loop_recording' = t.loop_recording
        /\ loop' = t.loop
        /\ sound_length' = t.sound_length
        /\ playing' = t.playing
        /\ current_waveform' = t.current_waveform
        /\ drum_patterns' = t.drum_patterns
        /\ synth_patterns' = t.synth_patterns
        /\ drum_lengths' = t.drum_lengths
        /\ synth_lengths' = t.synth_lengths
        /\ current_steps' = t.current_steps
        /\ sequencer_playing' = t.sequencer_playing
        /\ edit_mode' = t.edit_mode
        /\ edit_position' = t.edit_position
        /\ edit_target' = t.edit_target
        /\ bpm' = t.bpm
        /\ frame_count' = t.frame_count
        /\ drum_volume' = t.drum_volume
        /\ synth_volume' = t.synth_volume
        /\ presets' = t.presets
        /\ arpeggiator_on' = t.arpeggiator_on
        /\ heap' = t.heap
        /\ pyxel_frame_count' = IF t.fault # NoFault THEN pyxel_frame_count
                                ELSE (pyxel_frame_count + 1) % FrameWrap(loop_cap)
        /\ played' = t.played
        /\ console' = t.console
        /\ midi_file' = t.midi_file
        /\ wav_file' = t.wav_file
        /\ fault' = t.fault
        /\ pressed' = keys
        /\ run_ticks' =
             IF t.fault # NoFault THEN -1
             ELSE IF t.current_steps # current_steps THEN 0
             ELSE IF run_ticks >= 0 /\ sequencer_playing /\ t.sequencer_playing
                     /\ t.bpm = bpm
             THEN run_ticks + 1
             ELSE -1
        /\ step_gap' =
             IF t.fault = NoFault /\ t.current_steps # current_steps
                /\ run_ticks >= 0 /\ t.bpm = bpm
             THEN run_ticks + 1
             ELSE 0
        /\ lap' = [i \in 1..4 |->
                     IF t.current_steps = current_steps THEN lap[i]
                     ELSE IF lap[i] >= LengthOf(t, i - 1) THEN 1 ELSE lap[i] + 1]
        /\ lap_origin' = [i \in 1..4 |->
                     IF t.current_steps # current_steps /\ lap[i] >= LengthOf(t, i - 1)
                     THEN current_steps[i] ELSE lap_origin[i]]
        /\ snapshot' =
             IF btnp(keys, "F3") /\ t.fault = NoFault
             THEN [n \in (DOMAIN snapshot) \cup {"default"} |->
                     IF n = "default" THEN SavedValues(t) ELSE snapshot[n]]
             ELSE snapshot
    /\ UNCHANGED <<vlq_in, vlq_out, loop_cap, nan_cast>>

\* A frame among the first MaxFrames of a session.
Counted == frames < MaxFrames /\ frames' = frames + 1
EarlyFrame(keys) == Counted /\ Frame(keys)

\* Frames of a session of any length: an idle frame, and one key newly pressed.
Tick == Frame({}) /\ UNCHANGED frames
KeyTab == Frame({"TAB"}) /\ UNCHANGED frames
KeyPeriod == Frame({"PERIOD"}) /\ UNCHANGED frames
KeyComma == Frame({"COMMA"}) /\ UNCHANGED frames
KeyR == Frame({"R"}) /\ UNCHANGED frames
KeySpace == Frame({"SPACE"}) /\ UNCHANGED frames
KeyC == Frame({"C"}) /\ UNCHANGED frames
KeyZ == Frame({"Z"}) /\ UNCHANGED frames
Key1 == Frame({"1"}) /\ UNCHANGED frames
Key2 == Frame({"2"}) /\ UNCHANGED frames
KeyF1 == Frame({"F1"}) /\ UNCHANGED frames
KeyF5 == Frame({"F5"}) /\ UNCHANGED frames
KeyE == Frame({"E"}) /\ UNCHANGED frames
KeyMinus == Frame({"MINUS"}) /\ UNCHANGED frames

\* Edits made while the transport is stopped.
StoppedE == ~sequencer_playing /\ Frame({"E"}) /\ UNCHANGED frames
StoppedT == ~sequencer_playing /\ Frame({"T"}) /\ UNCHANGED frames
Stopped1 == ~sequencer_playing /\ Frame({"1"}) /\ UNCHANGED frames
StoppedZ == ~sequencer_playing /\ Frame({"Z"}) /\ UNCHANGED frames

\* No pattern list holds more than MaxGrow cells beyond the 32 it starts with.
GrownWithin ==
    \A r \in DOMAIN heap : \A k \in 1..Len(heap[r]) :
        Len(heap[r][k]) <= PatternCells + MaxGrow
\* A grow request in a session of any length, while there is room to explore.
KeyEquals == Frame({"EQUALS"}) /\ UNCHANGED frames /\ GrownWithin'
KeyX == Frame({"X"}) /\ UNCHANGED frames
KeyB == Frame({"B"}) /\ UNCHANGED frames
KeyUp == Frame({"UP"}) /\ UNCHANGED frames
KeyDown == Frame({"DOWN"}) /\ UNCHANGED frames
KeyW == Frame({"W"}) /\ UNCHANGED frames

\* A frame in which one key of the note keyboard is newly pressed.
NoteKeys == {synth_keys[i] : i \in 1..Len(synth_keys)}
KeyNote == \E key \in NoteKeys : Frame({key}) /\ UNCHANGED frames

\* Counted frames with one key newly pressed.
EarlyE == Counted /\ Frame({"E"})
EarlyT == Counted /\ Frame({"T"})
EarlyRight == Counted /\ Frame({"RIGHT"})
EarlySpace == Counted /\ Frame({"SPACE"})
EarlyEquals == Counted /\ Frame({"EQUALS"})
EarlyMinus == Counted /\ Frame({"MINUS"})
Early1 == Counted /\ Frame({"1"})
Early2 == Counted /\ Frame({"2"})
EarlyS == Counted /\ Frame({"S"})
EarlyW == Counted /\ Frame({"W"})
EarlyPeriod == Counted /\ Frame({"PERIOD"})
EarlyTab == Counted /\ Frame({"TAB"})
EarlyF1 == Counted /\ Frame({"F1"})
EarlyF2 == Counted /\ Frame({"F2"})
EarlyF3 == Counted /\ Frame({"F3"})
EarlyF4 == Counted /\ Frame({"F4"})

\* Frames among the first MaxEditFrames of a session.
Editing == frames < MaxEditFrames /\ frames' = frames + 1
CursorE == Editing /\ Frame({"E"})
CursorT == Editing /\ Frame({"T"})
CursorRight == Editing /\ Frame({"RIGHT"})
CursorLeft == Editing /\ Frame({"LEFT"})
CursorSpace == Editing /\ Frame({"SPACE"})
Cursor1 == Editing /\ Frame({"1"})

\* Frames among the first MaxOrderFrames of a session.
Ordering == frames < MaxOrderFrames /\ frames' = frames + 1
OrderTick == Ordering /\ Frame({})
OrderTab == Ordering /\ Frame({"TAB"})
OrderR == Ordering /\ Frame({"R"})
OrderE == Ordering /\ Frame({"E"})
Order2 == Ordering /\ Frame({"2"})

\* Every key update reads, one per frame, over the first frames of a session.
AllKeys ==
    {synth_keys[i] : i \in 1..Len(synth_keys)} \cup {drum_keys[i] : i \in 1..Len(drum_keys)}
    \cup {"R", "SPACE", "UP", "DOWN", "LEFT", "RIGHT", "W", "PERIOD", "COMMA",
          "6", "7", "8", "9", "TAB", "E", "T", "EQUALS", "MINUS", "BACKSPACE",
          "F1", "F2", "F3", "F4", "F5", "Q"}
Next == EarlyFrame({}) \/ \E key \in AllKeys : EarlyFrame({key})
Spec == Init /\ [][Next]_vars

\* The step clock under every tempo: any run of idle frames, transport
\* toggles and tempo changes.
NextClock == Tick \/ KeyTab \/ KeyPeriod \/ KeyComma
SpecClock == InitNoLoop /\ [][NextClock]_vars

\* The loop recorder and player: live drum and synth keys, the recording,
\* playback and clear keys, and idle frames, for any length of time.
NextLoop == Tick \/ KeyR \/ Key1 \/ Key2 \/ KeyZ \/ KeySpace \/ KeyC
SpecLoop == Init /\ [][NextLoop]_vars

\* The pattern editor: the first frames of a session spent editing.
NextEdit == EarlyE \/ EarlyT \/ EarlyRight \/ EarlySpace \/ EarlyEquals \/ EarlyMinus
SpecEdit == InitNoLoop /\ [][NextEdit]_vars

\* Presets: saving and loading between edits of the patterns and the waveform.
NextPreset == EarlyF3 \/ EarlyF4 \/ EarlyE \/ EarlySpace \/ EarlyW \/ EarlyEquals
SpecPreset == InitNoLoop /\ [][NextPreset]_vars

\* MIDI export of edited patterns.
NextMidi ==
    EarlyE \/ EarlyT \/ EarlyRight \/ Early1 \/ Early2 \/ EarlyS \/ EarlyPeriod \/ EarlyF1
SpecMidi == InitNoLoop /\ [][NextMidi]_vars

\* MIDI export under every tempo.
NextTempo == KeyPeriod \/ KeyComma \/ KeyF1
SpecTempo == InitNoLoop /\ [][NextTempo]_vars

\* The arpeggiator: live synth keys with the arpeggiator switched on and off,
\* recorded into a loop buffer that has room for one arpeggio.
InitArp == InitWith(Len(arp_pattern), 0)
NextArp == Tick \/ KeyF5 \/ KeyX \/ KeyB \/ KeyR
SpecArp == InitArp /\ [][NextArp]_vars

\* The two exporters, on patterns edited on all four tracks and on every
\* outcome of the cast of a NaN.
InitExport == InitOn(0, 0, NanCasts)
NextExport == EarlyE \/ EarlyT \/ Early1 \/ EarlyS \/ EarlyF1 \/ EarlyF2
SpecExport == InitExport /\ [][NextExport]_vars

\* Resizing drum track 0 for any length of time, with the transport.
NextResize == Tick \/ KeyE \/ KeyMinus \/ KeyEquals \/ KeyTab
SpecResize == InitNoLoop /\ [][NextResize]_vars

\* The edit cursor walked along a track, with cells toggled and set under it.
NextCursor ==
    CursorE \/ CursorT \/ CursorRight \/ CursorLeft \/ CursorSpace \/ Cursor1
SpecCursor == InitNoLoop /\ [][NextCursor]_vars

\* The step clock, for any length of time, over patterns edited on all four
\* tracks whenever the transport is stopped.
NextStep == Tick \/ KeyTab \/ StoppedE \/ StoppedT \/ Stopped1 \/ StoppedZ
SpecStep == InitNoLoop /\ [][NextStep]_vars

\* The note keyboard in every octave and waveform, with the arpeggiator on
\* and off: every note and octave play_note is called with from the keys.
NextPitch == KeyNote \/ KeyUp \/ KeyDown \/ KeyW \/ KeyF5
SpecPitch == InitNoLoop /\ [][NextPitch]_vars

\* The loop player, the step clock and the pattern editor at work in the
\* same frames: a drum cell edited and a one-entry loop recorded and replayed
\* while the transport runs.
InitOrder == InitWith(1, 0)
NextOrder == OrderTick \/ OrderTab \/ OrderR \/ OrderE \/ Order2
SpecOrder == InitOrder /\ [][NextOrder]_vars

\* Grow and shrink requests on every track, in and out of edit mode, with
\* the transport stopped and running, over the first frames of a session.
NextTarget == EarlyE \/ EarlyT \/ EarlyEquals \/ EarlyMinus \/ EarlyTab
SpecTarget == InitNoLoop /\ [][NextTarget]_vars

\* write_var_length on its own, applied to each value up to MaxDelta.
InitVlq == \E value \in 0..MaxDelta : InitWith(0, value)
ApplyVlq ==
    /\ vlq_out = <<>>
    /\ vlq_out' = write_var_length(vlq_in)
    /\ UNCHANGED <<engine, vlq_in>>
SpecVlq == InitVlq /\ [][ApplyVlq]_vars

(***************************************************************************)
(* The step clock's claims.                                                *)
(***************************************************************************)
\* A step boundary: the update on which the tracks advance.
StepAdvanced == current_steps' # current_steps

\* C1: with the transport running and bpm unchanged since the last step
\* boundary, the next boundary comes exactly floor(3600/bpm) updates after it
\* (never sooner: a boundary closes an interval of exactly that many updates;
\* never later: no such interval grows to that many updates without one),
\* and the tracks advance on no update that leaves the transport stopped.
StepIntervalExact ==
    [][/\ StepAdvanced => sequencer_playing'
       /\ step_gap' > 0 => step_gap' = FramesPerMinute \div bpm'
       /\ run_ticks' >= 0 => run_ticks' < FramesPerMinute \div bpm']_vars

\* C1 witness: a boundary a full interval after the previous one, at the
\* fastest tempo, whose interval is the shortest.
StepIntervalWitness ==
    step_gap = FramesPerMinute \div MaxBpm /\ bpm = MaxBpm /\ sequencer_playing

\* C2: every track's current_step lies in 0..length-1; and a track is back at
\* the position where a lap started exactly when `length` boundaries have
\* passed since, at none of the boundaries in between.
StepInRangeAndPeriodic ==
    \A i \in 1..4 :
        /\ current_steps[i] >= 0
        /\ current_steps[i] < LengthOf(Self, i - 1)
        /\ lap[i] \in 0..LengthOf(Self, i - 1)
        /\ lap[i] \in {0, LengthOf(Self, i - 1)} => current_steps[i] = lap_origin[i]
        /\ lap[i] \in 1..(LengthOf(Self, i - 1) - 1) => current_steps[i] # lap_origin[i]

\* C2 witness: a track has completed a lap and is back where it started.
StepPeriodWitness ==
    /\ lap[3] = LengthOf(Self, 2) /\ current_steps[3] = lap_origin[3]
    /\ sequencer_playing

(***************************************************************************)
(* The presets' claims.                                                    *)
(***************************************************************************)
\* What a stored preset holds now: its waveform and the contents of the
\* lists it refers to.
StoredValues(name) ==
    [waveform |-> presets[name].waveform,
     drum_patterns |-> heap[presets[name].drum_patterns],
     synth_patterns |-> heap[presets[name].synth_patterns]]

\* C3: a stored preset keeps the values it was saved with whatever is edited
\* afterwards, and a load leaves the waveform and the patterns at those values.
PresetRoundTrip ==
    /\ \A name \in DOMAIN presets : StoredValues(name) = snapshot[name]
    /\ (pressed = {"F4"} /\ console = "loaded")
           => SavedValues(Self) = snapshot["default"]

\* C6: loading a name that was never saved reports not-found and changes no
\* field of the engine, no pattern, no preset and no file.
LoadUnknownPreset ==
    [][(pressed' = {"F4"} /\ "default" \notin DOMAIN presets)
          => /\ console' = "not found"
             /\ UNCHANGED self_fields
             /\ UNCHANGED <<midi_file, fault>>]_vars

\* C6 witness: a load of the unsaved name after the waveform and a pattern
\* were changed.
LoadUnknownWitness ==
    /\ pressed = {"F4"} /\ console = "not found"
    /\ current_waveform # InitSelf.current_waveform
    /\ heap # InitSelf.heap

(***************************************************************************)
(* The pattern editor's claims.                                            *)
(***************************************************************************)
\* C4: a grow request on the edited track at capacity (its pattern holds, or
\* its length is, 32 cells) changes no pattern and no length, and so does a
\* shrink request on the edited track at length 1.
ResizeAtLimitIsNoOp ==
    [][/\ (/\ pressed' = {"EQUALS"} /\ edit_mode
           /\ \/ Len(PatternOf(Self, edit_target)) = 32
              \/ LengthOf(Self, edit_target) = 32)
          => UNCHANGED <<heap, drum_lengths, synth_lengths>>
       /\ (pressed' = {"MINUS"} /\ edit_mode /\ LengthOf(Self, edit_target) = 1)
          => UNCHANGED <<heap, drum_lengths, synth_lengths>>]_vars

(***************************************************************************)
(* The loop player's claims.                                               *)
(***************************************************************************)
\* The pyxel.play calls the loop player made in the last update.
Replays(calls) == SelectSeq(calls, LAMBDA call : call.by = "loop")

\* C5: with two entries recorded, recording stopped and playback on, every
\* update on a frame that is a multiple of 6 re-fires exactly one entry, the
\* two taking turns by the parity of the 6-frame interval, every other update
\* re-fires nothing, and playback does not fail.
LoopReplaysTwoEntries ==
    [][(Len(loop') = 2 /\ ~loop_recording' /\ playing')
          => /\ fault' = NoFault
             /\ IF pyxel_frame_count % 6 = 0
                THEN /\ Len(Replays(played')) = 1
                     /\ Replays(played')[1].channel =
                            loop'[((pyxel_frame_count \div 6) % 2) + 1][1]
                     /\ Replays(played')[1].sound =
                            loop'[((pyxel_frame_count \div 6) % 2) + 1][2]
                ELSE Replays(played') = <<>>]_vars

(***************************************************************************)
(* The MIDI exporter's claims.                                             *)
(***************************************************************************)
\* Big-endian numbers read from a byte sequence at position i.
U32At(bytes, i) ==
    bytes[i] * 16777216 + bytes[i + 1] * 65536 + bytes[i + 2] * 256 + bytes[i + 3]
U16At(bytes, i) == bytes[i] * 256 + bytes[i + 1]

\* The file read as a header and two chunks, by the lengths it declares.
Track1Length == U32At(midi_file, 19)
Track1Body == SubSeq(midi_file, 23, 22 + Track1Length)
Track2Start == 23 + Track1Length
Track2Length == U32At(midi_file, Track2Start + 4)
Track2Body == SubSeq(midi_file, Track2Start + 8, Track2Start + 7 + Track2Length)

\* The update just ended wrote the file from the state as it is now.
JustExported == pressed = {"F1"} /\ fault = NoFault

\* C7: track 1 opens with one zero delta-time byte, FF 51 03 and the three
\* bytes of floor(60000000/bpm), most significant first.
TempoEventAtTimeZero ==
    JustExported =>
        SubSeq(Track1Body, 1, 7) =
            <<0, 255, 81, 3,
              ((60000000 \div bpm) \div 65536) % 256,
              ((60000000 \div bpm) \div 256) % 256,
              (60000000 \div bpm) % 256>>

\* A variable-length quantity below 2^21 written out byte by byte.
Quantity(v) ==
    IF v < 128 THEN <<v>>
    ELSE IF v < 16384 THEN <<128 + (v \div 128), v % 128>>
    ELSE <<128 + (v \div 16384), 128 + ((v \div 128) % 128), v % 128>>

\* The bytes the claim gives an active cell at step index step.
DrumNoteBytes(step, cell) ==
    Quantity(step * 120) \o <<153, 35 + cell[2], cell[3]>>
    \o Quantity((cell[4][1] * 480) \div cell[4][2]) \o <<137, 35 + cell[2], 0>>
SynthNoteBytes(step, cell) ==
    Quantity(step * 120) \o <<144, cell[2] + (cell[3] - 1) * 12 + 60, cell[5]>>
    \o Quantity((cell[6][1] * 480) \div cell[6][2])
    \o <<128, cell[2] + (cell[3] - 1) * 12 + 60, 0>>

RECURSIVE NoteBytesUpTo(_, _, _)
\* The cells of steps 0..last of a track in ascending order, each active one
\* as its bytes and each inactive one as nothing.
NoteBytesUpTo(pattern, last, synth) ==
    IF last < 0 THEN <<>>
    ELSE NoteBytesUpTo(pattern, last - 1, synth)
         \o (IF pattern[last + 1][1] = 0 THEN <<>>
             ELSE IF synth THEN SynthNoteBytes(last, pattern[last + 1])
             ELSE DrumNoteBytes(last, pattern[last + 1]))

\* The last step index of track 0 of a kind that has a cell.
LastStep(pattern, length) == Min(length, Len(pattern)) - 1

\* C8: after the 10 bytes that open track 1, its body is the bytes of the
\* active cells of drum track 0 in ascending step order and the end of track;
\* the body of track 2 is those of synth track 0 and the end of track; a
\* single active drum step 0 with sound 0 gives 00 99 23 64 78 89 23 00.
NoteEventsPerActiveCell ==
    JustExported =>
        /\ SubSeq(Track1Body, 11, Len(Track1Body)) =
               NoteBytesUpTo(heap[drum_patterns][1],
                             LastStep(heap[drum_patterns][1], drum_lengths[1]), FALSE)
               \o <<0, 255, 47, 0>>
        /\ Track2Body =
               NoteBytesUpTo(heap[synth_patterns][1],
                             LastStep(heap[synth_patterns][1], synth_lengths[1]), TRUE)
               \o <<0, 255, 47, 0>>
        /\ (/\ heap[drum_patterns][1][1] = <<1, 0, 100, <<1, 4>>>>
            /\ \A k \in 2..drum_lengths[1] : heap[drum_patterns][1][k][1] = 0)
           => SubSeq(Track1Body, 11, 18) = <<0, 153, 35, 100, 120, 137, 35, 0>>

\* C8 witness: an export with an active drum cell and an active synth cell at
\* steps whose delta-times take two bytes.
NoteEventsWitness ==
    /\ JustExported
    /\ \E k \in 3..drum_lengths[1] : heap[drum_patterns][1][k][1] = 1
    /\ \E k \in 3..synth_lengths[1] : heap[synth_patterns][1][k][1] = 1

\* C10: the file is MThd, length 6, format 1, 2 tracks, division 480, then
\* exactly two chunks, each MTrk, the 32-bit length of its body and a body
\* that ends 00 FF 2F 00, and nothing after the second.
MidiFraming ==
    midi_file # <<>> =>
        /\ Len(midi_file) >= 30
        /\ SubSeq(midi_file, 1, 4) = <<77, 84, 104, 100>>
        /\ U32At(midi_file, 5) = 6
        /\ U16At(midi_file, 9) = 1
        /\ U16At(midi_file, 11) = 2
        /\ U16At(midi_file, 13) = 480
        /\ SubSeq(midi_file, 15, 18) = <<77, 84, 114, 107>>
        /\ Track1Length >= 4
        /\ Track2Start + 7 <= Len(midi_file)
        /\ SubSeq(Track1Body, Track1Length - 3, Track1Length) = <<0, 255, 47, 0>>
        /\ SubSeq(midi_file, Track2Start, Track2Start + 3) = <<77, 84, 114, 107>>
        /\ Track2Length >= 4
        /\ Track2Start + 7 + Track2Length = Len(midi_file)
        /\ SubSeq(Track2Body, Track2Length - 3, Track2Length) = <<0, 255, 47, 0>>

\* C10 witness: a file whose two tracks both carry note events, written at a
\* tempo other than the default.
MidiFramingWitness ==
    /\ midi_file # <<>> /\ JustExported /\ bpm # 120
    /\ Track1Length > 14 /\ Track2Length > 4

RECURSIVE QuantityValue(_, _)
\* The number the 7-bit payloads of bytes[1..k] spell, most significant first.
QuantityValue(bytes, k) ==
    IF k = 0 THEN 0 ELSE QuantityValue(bytes, k - 1) * 128 + (bytes[k] % 128)

\* C9: write_var_length gives at least one byte, every byte but the last
\* with bit 7 set and the last with it clear, payloads that spell the value,
\* no leading 0x80, and the single byte 00 for 0.
VarLengthWellFormed ==
    vlq_out # <<>> =>
        /\ \A k \in 1..Len(vlq_out) : vlq_out[k] \in 0..255
        /\ \A k \in 1..(Len(vlq_out) - 1) : vlq_out[k] >= 128
        /\ vlq_out[Len(vlq_out)] < 128
        /\ QuantityValue(vlq_out, Len(vlq_out)) = vlq_in
        /\ Len(vlq_out) > 1 => vlq_out[1] # 128
        /\ vlq_in = 0 => vlq_out = <<0>>

\* C9 witness: the largest delta-time the exporter can produce, step 31 of a
\* pattern at 120 ticks a step, which takes two bytes.
VarLengthWitness == vlq_in = 3720 /\ vlq_out = <<157, 8>>

(***************************************************************************)
(* The arpeggiator's claims.                                               *)
(***************************************************************************)
\* The expansion of base note n the arpeggiator is to give.
ArpeggioOf(on, n) == IF on THEN <<n, n + 4, n + 7, n + 12>> ELSE <<n>>

\* The pyxel.play calls the keyboard handler made in the last update.
KeyCalls(calls) == SelectSeq(calls, LAMBDA call : call.by = "key")

\* The call a live dispatch of `note` makes in the current state.
LiveCall(note) ==
    play_note(Self, note, current_octave, NoneValue, 100, QuarterDuration, 0,
              "key").played[Len(played) + 1]

\* C11: apply_arpeggiator(n) is [n] when the arpeggiator is off and
\* [n, n+4, n+7, n+12] when it is on, for every base note 0..7; a synth key
\* press dispatches exactly those notes in that order and, while recording,
\* appends them to the loop in that order. (Key C is left out: it also clears
\* the loop.)
ArpeggiatorOrder ==
    [][/\ \A n \in 0..7 :
              apply_arpeggiator(Self, n) = ArpeggioOf(arpeggiator_on, n)
       /\ \A i \in (0..11) \ {4} :
              pressed' = {synth_keys[i + 1]} =>
                  /\ Len(KeyCalls(played')) = Len(ArpeggioOf(arpeggiator_on, i % 8))
                  /\ \A k \in 1..Len(ArpeggioOf(arpeggiator_on, i % 8)) :
                         KeyCalls(played')[k] =
                             LiveCall(ArpeggioOf(arpeggiator_on, i % 8)[k])
                  /\ loop_recording =>
                         /\ Len(loop') =
                                Len(loop) + Len(ArpeggioOf(arpeggiator_on, i % 8))
                         /\ SubSeq(loop', 1, Len(loop)) = loop
                         /\ \A k \in 1..Len(ArpeggioOf(arpeggiator_on, i % 8)) :
                                loop'[Len(loop) + k] =
                                    <<0, ArpeggioOf(arpeggiator_on, i % 8)[k],
                                      current_octave, current_waveform>>
                  /\ ~loop_recording => loop' = loop]_vars

\* C11 witness: base note 2 played and recorded with the arpeggiator on.
ArpeggiatorWitness ==
    /\ pressed = {"X"} /\ arpeggiator_on /\ loop_recording
    /\ loop = <<<<0, 2, 2, 0>>, <<0, 6, 2, 0>>, <<0, 9, 2, 0>>, <<0, 14, 2, 0>>>>
    /\ Len(KeyCalls(played)) = 4

(***************************************************************************)
(* The WAV exporter's claims.                                              *)
(***************************************************************************)
\* The update just ended wrote sequence.wav from the state as it is now.
JustExportedWav == pressed = {"F2"} /\ fault = NoFault

\* No cell of the first `length` cells of a pattern is active.
AllInactive(pattern, length) ==
    \A k \in 1..Min(length, Len(pattern)) : pattern[k][1] = 0

\* C12: a WAV export with every cell of drum track 0 and synth track 0
\* inactive does not fail, does not divide by the zero peak, and writes
\* samples that are all 0.
SilentWavExport ==
    (/\ pressed = {"F2"}
     /\ AllInactive(heap[drum_patterns][1], drum_lengths[1])
     /\ AllInactive(heap[synth_patterns][1], synth_lengths[1]))
        => /\ fault = NoFault
           /\ wav_file.divisor # "zero"
           /\ wav_file.samples = "all 0"

(***************************************************************************)
(* The patterns' claims.                                                   *)
(***************************************************************************)
\* C13: every track's length is in 1..32 and is at most the number of cells
\* its pattern holds, current_step addresses a cell that exists, and no update
\* has read past the end of a pattern.
LengthsAddressCells ==
    /\ \A i \in 0..3 :
           /\ LengthOf(Self, i) >= 1
           /\ LengthOf(Self, i) <= 32
           /\ LengthOf(Self, i) <= Len(PatternOf(Self, i))
           /\ current_steps[i + 1] < Len(PatternOf(Self, i))
    /\ fault # "IndexError"

\* The step clock reads a cell that its pattern no longer holds.
StepReadsPastEnd == fault = "IndexError" /\ sequencer_playing /\ pressed = {}

\* The pattern and the length of the track being edited.
EditedPattern == PatternOf(Self, edit_target)
EditedLength == LengthOf(Self, edit_target)

\* C14: in edit mode a grow request on a track of length below 32 appends one
\* default-off cell and adds 1 to the track's length; a shrink request on a
\* track of length above 1 removes the last cell and takes 1 from the length.
ResizeMovesLength ==
    [][/\ (pressed' = {"EQUALS"} /\ edit_mode /\ EditedLength < 32)
          => /\ EditedPattern' =
                    Append(EditedPattern,
                           IF edit_target < 2 THEN <<0, 0, 100, <<1, 4>>>>
                           ELSE <<0, 0, 0, 0, 100, <<1, 4>>>>)
             /\ EditedLength' = EditedLength + 1
       /\ (pressed' = {"MINUS"} /\ edit_mode /\ EditedLength > 1)
          => /\ EditedPattern' = SubSeq(EditedPattern, 1, Len(EditedPattern) - 1)
             /\ EditedLength' = EditedLength - 1]_vars

(***************************************************************************)
(* The edit cursor's claims.                                               *)
(***************************************************************************)
\* The keys that change a cell in edit mode.
MutationKeys ==
    {"SPACE"} \cup {drum_keys[k] : k \in 1..Len(drum_keys)}
    \cup {synth_keys[k] : k \in 1..Len(synth_keys)}

\* C15: in edit mode the cursor is within 0..length of the edited track, and
\* a toggle or a drum or synth key changes a cell only in edit mode with the
\* cursor below that length: with the cursor at the length no cell changes.
CursorGuardsCells ==
    [][/\ edit_mode' => (edit_position' >= 0 /\ edit_position' <= EditedLength')
       /\ (pressed' \subseteq MutationKeys /\ heap' # heap)
              => (edit_mode /\ edit_position < EditedLength)]_vars

(***************************************************************************)
(* The loop recorder's claims.                                             *)
(***************************************************************************)
\* The entry whose turn it is on the frame the update ran at.
EntryDue == loop'[((pyxel_frame_count \div 6) % Len(loop')) + 1]

\* The call a live dispatch of a stored synth entry makes.
SynthReplayCall(entry) ==
    play_note(Self, entry[2], entry[3], Given(entry[4]), 100, QuarterDuration, 0,
              "loop").played[Len(played) + 1]

\* C16: on every update that replays an entry the update does not fail and
\* makes one call: for a drum entry the bare retrigger of its sound on its
\* channel, for a synth entry the call a live dispatch of its note, octave
\* and waveform makes.
EveryEntryReplays ==
    [][(playing' /\ loop' # <<>> /\ pyxel_frame_count % 6 = 0)
          => /\ fault' = NoFault
             /\ Len(Replays(played')) = 1
             /\ Replays(played')[1].channel = EntryDue[1]
             /\ IF Len(EntryDue) = 2
                THEN /\ Replays(played')[1].sound = EntryDue[2]
                     /\ Replays(played')[1].set = NoneValue
                ELSE /\ Replays(played')[1].sound = SynthReplayCall(EntryDue).sound
                     /\ Replays(played')[1].set = SynthReplayCall(EntryDue).set]_vars

\* C17: switching recording on changes neither the loop nor the playing
\* flag; switching it off leaves the loop as it is and sets the playing flag
\* when the loop is not empty, and leaves the flag as it was when it is.
RecordingToggle ==
    [][pressed' = {"R"}
          => /\ loop_recording' = ~loop_recording
             /\ loop' = loop
             /\ playing' = IF loop_recording /\ loop # <<>> THEN TRUE ELSE playing]_vars

\* C17 witness: recording switched off over a recorded loop while playback
\* was off, which starts playback.
RecordingToggleWitness ==
    pressed = {"R"} /\ ~loop_recording /\ loop # <<>> /\ playing

(***************************************************************************)
(* The transport's claims.                                                 *)
(***************************************************************************)
\* C18: switching the transport from off to on sets the frame counter to 0,
\* so that the update ends with the one frame it counted itself, and changes
\* no current_step, no pattern and no length.
TransportResumes ==
    [][(pressed' = {"TAB"} /\ ~sequencer_playing)
          => /\ sequencer_playing'
             /\ ToggleTransport(Self, {"TAB"}).frame_count = 0
             /\ frame_count' = 1
             /\ UNCHANGED <<current_steps, heap, drum_patterns, synth_patterns,
                            drum_lengths, synth_lengths>>]_vars

\* C18 witness: the transport switched back on in the middle of the pattern.
TransportResumesWitness ==
    /\ pressed = {"TAB"} /\ sequencer_playing /\ frame_count = 1
    /\ current_steps = <<3, 3, 3, 3>>

\* The pyxel.play calls the step clock made in the last update.
StepCalls(calls) == SelectSeq(calls, LAMBDA call : call.by = "step")

\* The call the step event of a track makes for the cell at its current_step.
StepCallOf(track) ==
    IF track < 2
    THEN [by |-> "step", channel |-> 1, sound |-> 60 + StepCell(Self, track)[2],
          set |-> NoneValue]
    ELSE play_note(Self, StepCell(Self, track)[2], StepCell(Self, track)[3],
                   Given(StepCell(Self, track)[4]), StepCell(Self, track)[5],
                   StepCell(Self, track)[6], track - 2,
                   "step").played[Len(played) + 1]

RECURSIVE StepCallsFrom(_)
\* The calls of the step events of tracks track..3, in track order: one for
\* an active cell, none for an inactive one.
StepCallsFrom(track) ==
    IF track > 3 THEN <<>>
    ELSE (IF StepCell(Self, track)[1] = 0 THEN <<>> ELSE <<StepCallOf(track)>>)
         \o StepCallsFrom(track + 1)

\* C19: on a step boundary every track moves to the next position modulo its
\* own length, and the step events are one call for each track whose cell at
\* its current_step is active, in track order; on any other update no track
\* moves and no step event fires.
TracksStepTogether ==
    [][/\ StepAdvanced
          => /\ \A i \in 1..4 :
                    current_steps'[i] = (current_steps[i] + 1) % LengthOf(Self, i - 1)
             /\ Len(StepCalls(played')) = Len(StepCallsFrom(0))
             /\ StepCalls(played') = StepCallsFrom(0)
       /\ ~StepAdvanced => StepCalls(played') = <<>>]_vars

\* C19 witness: a boundary on which a drum track and a synth track fired and
\* another track of each kind stayed silent, all four having advanced.
TracksStepTogetherWitness ==
    /\ Len(StepCalls(played)) = 2
    /\ StepCalls(played)[1].sound >= 60
    /\ StepCalls(played)[2].sound < 60
    /\ current_steps = <<1, 1, 1, 1>>

(***************************************************************************)
(* The exporters' claims.                                                  *)
(***************************************************************************)
\* The current state with other contents and lengths for drum track 1 and
\* synth track 1.
WithSecondTracks(drums, synths, length) ==
    [Self EXCEPT !.heap = [@ EXCEPT ![drum_patterns] = <<@[1], drums>>,
                                    ![synth_patterns] = <<@[1], synths>>],
                 !.drum_lengths = <<@[1], length>>,
                 !.synth_lengths = <<@[1], length>>]

\* Contents to try for the second tracks: untouched, every cell active, empty.
OtherDrumTracks ==
    {[c \in 1..32 |-> <<0, 0, 100, <<1, 4>>>>],
     [c \in 1..32 |-> <<1, 3, 100, <<1, 4>>>>], <<>>}
OtherSynthTracks ==
    {[c \in 1..32 |-> <<0, 0, 0, 0, 100, <<1, 4>>>>],
     [c \in 1..32 |-> <<1, 7, 4, 1, 100, <<1, 4>>>>], <<>>}

\* C20: whatever drum track 1 and synth track 1 hold and however long they
\* are, the MIDI exporter writes the same bytes and the WAV exporter sums the
\* same contributions; the file an export wrote is the one the state gives;
\* and an exporter changes nothing of the engine but its file.
ExportsIgnoreSecondTracks ==
    /\ \A drums \in OtherDrumTracks : \A synths \in OtherSynthTracks :
       \A length \in {1, 32} :
           /\ export_to_midi(WithSecondTracks(drums, synths, length)).midi_file
                  = export_to_midi(Self).midi_file
           /\ export_to_wav(WithSecondTracks(drums, synths, length)).wav_file.contributions
                  = export_to_wav(Self).wav_file.contributions
    /\ JustExported => midi_file = export_to_midi(Self).midi_file
    /\ JustExportedWav => wav_file = export_to_wav(Self).wav_file
    /\ [export_to_midi(Self) EXCEPT !.midi_file = midi_file] = Self
    /\ [export_to_wav(Self) EXCEPT !.wav_file = wav_file] = Self

\* C20 witness: an export of patterns with active cells on drum track 0, on
\* drum track 1 and on synth track 1.
ExportsIgnoreWitness ==
    /\ JustExported \/ JustExportedWav
    /\ heap[drum_patterns][1][1][1] = 1
    /\ heap[drum_patterns][2][1][1] = 1
    /\ heap[synth_patterns][2][1][1] = 1

(***************************************************************************)
(* C21: pitch resolution in play_note                                      *)
(***************************************************************************)
\* The Python index of a key in the note keyboard of line 107.
KeyIndex(key) == CHOOSE i \in 0..(Len(synth_keys) - 1) : At(synth_keys, i) = key

\* The notes line 114 and lines 116-122 hand to play_note for the key of
\* the last update, in call order.
NotesOfPressed ==
    IF pressed \cap NoteKeys = {} THEN <<>>
    ELSE ArpeggioOf(arpeggiator_on, KeyIndex(CHOOSE key \in pressed : TRUE) % 8)

\* C21: every play_note call made from the keys, for every note 0..19 and
\* every octave 1..4, sets and plays a sound slot in 0..59, and a call with
\* note index 7 sets the note named C of the octave above the given one.
PitchResolution ==
    /\ current_octave \in 1..4
    /\ Len(KeyCalls(played)) = Len(NotesOfPressed)
    /\ \A k \in 1..Len(NotesOfPressed) :
          /\ NotesOfPressed[k] \in 0..19
          /\ KeyCalls(played)[k].sound \in 0..TopSound
          /\ NotesOfPressed[k] = 7 =>
                /\ KeyCalls(played)[k].set[1] = "C"
                /\ KeyCalls(played)[k].set[2] = current_octave + 1

\* C21 witness: in octave 4 with the arpeggiator on, the key of note 3 plays
\* 3, 7, 10 and 15: note 7 is set as C of octave 5, and note 15 is held to
\* the last slot.
PitchResolutionWitness ==
    /\ pressed = {"D"} /\ arpeggiator_on /\ current_octave = 4
    /\ Len(played) = 4
    /\ played[2].set[1] = "C" /\ played[2].set[2] = 5 /\ played[2].sound = 55
    /\ played[4].sound = TopSound

(***************************************************************************)
(* C22: the order of the components within one update                      *)
(***************************************************************************)
\* In the calls of one update, every call of the first kind is made before
\* every call of the second kind.
CallsInOrder(calls, first, second) ==
    \A i, j \in 1..Len(calls) :
        (calls[i].by = first /\ calls[j].by = second) => i < j

\* The step clock runs before the pattern editor: the step events of an
\* update are those of the cells as they were before the update's edits.
StepClockBeforeEditor == StepAdvanced => StepCalls(played') = StepCallsFrom(0)

\* C22 as stated: in every update the step clock runs first, then the loop
\* player, then the pattern editor, each to completion before the next.
ClockLoopEditOrder ==
    [][fault' = NoFault
          => /\ CallsInOrder(played', "step", "loop")
             /\ StepClockBeforeEditor]_vars

\* C22 amended: in every update the loop player runs first, then the step
\* clock, then the pattern editor, each to completion before the next.
LoopClockEditOrder ==
    [][fault' = NoFault
          => /\ CallsInOrder(played', "loop", "step")
             /\ StepClockBeforeEditor]_vars

\* C22 witness: an idle update on a step boundary and a loop interval, with
\* an active cell under the step and one entry in the loop: the loop entry
\* is replayed first and the step event fires second.
LoopClockEditWitness ==
    /\ pressed = {} /\ sequencer_playing /\ playing /\ fault = NoFault
    /\ run_ticks = 0
    /\ Len(played) = 2
    /\ played[1].by = "loop" /\ played[1].sound = loop[1][2]
    /\ played[2].by = "step" /\ played[2].sound = DrumSoundBase + 1

\* An update in edit mode with key 2 pressed on a step boundary and a loop
\* interval, the cell under the step inactive: the live drum sounds, the
\* loop entry is replayed, the step event finds nothing to fire, and then
\* the editor switches the cell on.
EditAfterStepWitness ==
    /\ pressed = {"2"} /\ edit_mode /\ sequencer_playing /\ fault = NoFault
    /\ run_ticks = 0 /\ current_steps[1] = 1
    /\ Len(played) = 2
    /\ played[1].by = "drum" /\ played[2].by = "loop"
    /\ At(PatternOf(Self, 0), 0)[1] = 1

(***************************************************************************)
(* C23: what a grow or shrink request changes                              *)
(***************************************************************************)
\* The engine as an update without any key would leave it: what remains of
\* an update with a key once this is taken away is the effect of the key.
IdleUpdate == update(Self, {})

\* The fields of self, what they refer to and what the update sent out.
Outcome(s) == [s EXCEPT !.pyxel_frame_count = 0]

\* C23: a grow or shrink request made in edit mode leaves the patterns and
\* lengths of the three tracks that are not the target, every current_step
\* and the transport as an update without the request leaves them; made
\* outside edit mode it leaves the whole engine so.
ResizeFrameEffect ==
    [][pressed' \in {{"EQUALS"}, {"MINUS"}}
          => IF edit_mode
             THEN /\ \A track \in (0..3) \ {edit_target} :
                       /\ PatternOf(Self, track)' = PatternOf(IdleUpdate, track)
                       /\ LengthOf(Self, track)' = LengthOf(IdleUpdate, track)
                  /\ current_steps' = IdleUpdate.current_steps
                  /\ sequencer_playing' = IdleUpdate.sequencer_playing
                  /\ frame_count' = IdleUpdate.frame_count
                  /\ bpm' = IdleUpdate.bpm
                  /\ edit_target' = edit_target
             ELSE Outcome(Self)' = Outcome(IdleUpdate)]_vars

\* C23 witness: a grow request on the first synth track, in edit mode with
\* the transport running, has appended a cell to that track and to no other.
ResizeFrameWitness ==
    /\ pressed = {"EQUALS"} /\ edit_mode /\ edit_target = 2
    /\ sequencer_playing /\ frame_count > 0
    /\ Len(PatternOf(Self, 2)) = PatternCells + 1
    /\ \A track \in {0, 1, 3} : Len(PatternOf(Self, track)) = PatternCells

(***************************************************************************)
(* C24: the tempo and the frame counter after every update                 *)
(***************************************************************************)
\* C24: after every update, whatever transport toggles and tempo changes
\* came before, bpm is within 60..300 and the frame counter is at least 0
\* and below the step interval 3600 // bpm of the tempo now in force.
TempoAndCounterInRange ==
    /\ bpm \in MinBpm..MaxBpm
    /\ frame_count >= 0
    /\ frame_count < FramesPerMinute \div bpm

\* C24 witness: the tempo was raised from 60 to 65 in the middle of a step:
\* the counter stands at 54, the last value below the new interval of 55.
TempoRaisedMidStep ==
    /\ pressed = {"PERIOD"} /\ sequencer_playing /\ fault = NoFault
    /\ bpm = MinBpm + BpmStep
    /\ frame_count = (FramesPerMinute \div bpm) - 1

=============================================================================
